---- MODULE Spec2Model ----
(***************************************************************************)
(* A model of padiff/report.py: the recorders (Counter, ReportItem,        *)
(* Report), the report_guard context manager with its module-level slots   *)
(* and counters, and the tree walk of check_forward_and_backward.          *)
(*                                                                         *)
(* Three machines share the variables below:                               *)
(*   Spec       report_guard / put_item, nested and sequential scopes      *)
(*   SpecFind   one scope, records put on both sides, find_item queries    *)
(*   SpecCheck  one session of check_forward_and_backward                  *)
(***************************************************************************)
EXTENDS Integers, Sequences, FiniteSets, TLC

\* ---------------------------------------------------------------- bounds
NumReports == 3     \* Report objects that exist
MaxDepth   == 2     \* nesting depth of report_guard scopes
MaxEntries == 2     \* report_guard entries in one behaviour
MaxItems   == 2     \* records put in one behaviour of Spec
MaxT       == 4     \* records on the queried recorder in SpecFind
MaxP       == 3     \* records on the other recorder in SpecFind
MaxNodes   == 4     \* nodes of one structural tree in SpecCheck
MaxLinked  == 3     \* records put on the recorder in SpecLink

\* ------------------------------------------------------------ vocabulary
None     == 0                         \* Python None where a Report is expected
NoCounter == "None"                   \* Python None where a Counter is expected
Reports  == 1..NumReports
Types    == {"forward", "backward"}
NetIds   == {1, 2}                    \* the identity asked for and another one
Counters == {"torch", "paddle"}       \* global_torch_counter, global_paddle_counter

VARIABLES
  \* --- module state of report.py
  global_torch_report,    \* Report or None
  global_paddle_report,   \* Report or None
  counter_id,             \* Counter.id of the two module-level counters
  counter,                \* Report.counter of every Report
  items,                  \* Report.items of every Report
  guards,                 \* the suspended report_guard generators, innermost last
  exc,                    \* an exception is propagating
  \* --- history of the recording, for the properties
  hist,                   \* per open scope: the state seen at its entry
  entries,                \* number of report_guard entries so far
  put_scope,              \* per Report, per record: the scope it was put under
  last_exit,              \* the most recent scope exit
  found,                  \* the most recent find_item query and its result
  last_put,               \* the most recent put_item call and its outcome
  \* --- one session of check_forward_and_backward
  t_children,             \* children lists of the cloned torch tree
  p_children,             \* children lists of the cloned paddle tree
  marker,                 \* per paddle node: the "reordered" marker
  options,                \* loss_fn, diff_phase
  stack,                  \* the active check_forward / check_backward calls
  ret,                    \* value returned by the call that just ended
  spc,                    \* position inside check_forward_and_backward
  result,                 \* what check_forward_and_backward returned
  \* --- history of the session, for the properties
  act_log,                \* comparison actions applied, in order
  print_log,              \* print_info calls, in order
  reorder_log,            \* reorder_and_match_reports calls, in order
  loss_cmp,               \* outcome of the loss comparison, if made
  bwd_read,               \* a node's bwd_report has been read
  ret_log,                \* the check_forward / check_backward calls that returned
  exc_kind                \* the exception that escaped the session

rec_vars  == <<global_torch_report, global_paddle_report, counter_id, counter,
               items, guards, exc, hist, entries, put_scope, last_exit, found,
               last_put>>
sess_vars == <<t_children, p_children, marker, options, stack, ret, spc, result,
               act_log, print_log, reorder_log, loss_cmp, bwd_read, ret_log,
               exc_kind>>
vars      == <<rec_vars, sess_vars>>

\* ================================================================ Counter
\* Counter.clear
clear(ids, c) == [ids EXCEPT ![c] = 0]

get_id_ret_incremented(ids, c) == ids[c] + 1

\* Counter.get_id: the value returned
get_id_ret(ids, c) == ids[c]

\* Counter.get_id: the counter afterwards
get_id(ids, c) == [ids EXCEPT ![c] = ids[c] + 1]

\* ============================================================= ReportItem
\* None in a fwd_item / bwd_item field; a ReportItem object is referred to
\* by <<recorder, position in its items>>
NoItem == <<0, 0>>

\* ReportItem.__init__ (lines 53-73)
ReportItem(type, step, net_id) ==
  [type |-> type, step |-> step, net_id |-> net_id,
   fwd_item |-> NoItem, bwd_item |-> NoItem]

\* the two assignments of ReportItem.set_forward (lines 77-78)
set_forward(its, self, fwd) ==
  LET linked == [its EXCEPT ![fwd[1]][fwd[2]].bwd_item = self]
  IN  [linked EXCEPT ![self[1]][self[2]].fwd_item = fwd]

\* ================================================================= Report
\* list(filter(lambda x: x.type == "forward" and x.net_id == net_id, its))
\* as the positions of the selected records inside its
RECURSIVE FwdPositions(_, _, _)
FwdPositions(its, net_id, i) ==
  IF i > Len(its) THEN <<>>
  ELSE IF its[i].type = "forward" /\ its[i].net_id = net_id
       THEN <<i>> \o FwdPositions(its, net_id, i + 1)
       ELSE FwdPositions(its, net_id, i + 1)

\* Python list indexing lst[k] over a list of length n: the 1-based position
\* read, or 0 when the access raises IndexError.  A negative k counts from
\* the end of the list.
PyIndex(n, k) ==
  IF k >= 0 THEN (IF k < n THEN k + 1 ELSE 0)
  ELSE (IF n + k >= 0 THEN n + k + 1 ELSE 0)

FindIndex_first(tn, pn) == PyIndex(tn, 0)

\* the subscript of find_item: tlist[len(plist) - 1]
FindIndex(tn, pn) == PyIndex(tn, pn - 1)

\* Report.find_item: the position in self.items of the record returned, as
\* [ok |-> TRUE, pos |-> position], or ok = FALSE when IndexError is raised
find_item(self_items, p_items, net_id) ==
  LET tlist == FwdPositions(self_items, net_id, 1)
      plist == FwdPositions(p_items, net_id, 1)
      k     == FindIndex(Len(tlist), Len(plist))
  IN  IF k = 0 THEN [ok |-> FALSE, pos |-> 0]
      ELSE [ok |-> TRUE, pos |-> tlist[k]]

\* ========================================================== report_guard
\* lines 440-446
current_torch_report ==
  IF global_torch_report = None THEN None ELSE global_torch_report

\* lines 431-437
current_paddle_report ==
  IF global_paddle_report = None THEN None ELSE global_paddle_report

\* lines 416-417: torch_report.counter = ...; paddle_report.counter = ...
AttachCounters(c, t, p) ==
  [[c EXCEPT ![t] = "torch"] EXCEPT ![p] = "paddle"]

\* lines 419-420: torch_report.counter.clear(); paddle_report.counter.clear()
\* read through the recorders, after both assignments
ClearCounters(ids, c, t, p) == clear(clear(ids, c[t]), c[p])

DetachCounters_torch_only(c, t, p) == [c EXCEPT ![t] = NoCounter]

\* lines 427-428: torch_report.counter = None; paddle_report.counter = None
DetachCounters(c, t, p) ==
  [[c EXCEPT ![t] = NoCounter] EXCEPT ![p] = NoCounter]

\* the innermost open scope a recorder was entered with (0: none)
RECURSIVE ScopeOf(_, _, _)
ScopeOf(gs, hs, r) ==
  IF gs = <<>> THEN 0
  ELSE LET f == gs[Len(gs)] IN
       IF f.torch_report = r \/ f.paddle_report = r
       THEN hs[Len(hs)].sid
       ELSE ScopeOf(SubSeq(gs, 1, Len(gs) - 1), SubSeq(hs, 1, Len(hs) - 1), r)

\* the number of records held by all recorders together
RECURSIVE SumLen(_, _)
SumLen(f, S) ==
  IF S = {} THEN 0
  ELSE LET x == CHOOSE y \in S : TRUE IN Len(f[x]) + SumLen(f, S \ {x})

TotalItems == SumLen(items, Reports)

NoExit == [how |-> "none"]
NoFound == [net_id |-> 0]
NoPut == [how |-> "none"]

RecInit ==
  /\ global_torch_report = None
  /\ global_paddle_report = None
  /\ counter_id = [c \in Counters |-> 0]
  /\ counter = [r \in Reports |-> NoCounter]
  /\ items = [r \in Reports |-> <<>>]
  /\ guards = <<>>
  /\ exc = FALSE
  /\ hist = <<>>
  /\ entries = 0
  /\ put_scope = [r \in Reports |-> <<>>]
  /\ last_exit = NoExit
  /\ found = NoFound
  /\ last_put = NoPut

\* report_guard up to its yield (lines 408-422)
GuardEnter(t, p) ==
  /\ ~exc
  /\ Len(guards) < MaxDepth
  /\ entries < MaxEntries
  /\ guards' = Append(guards, [torch_report |-> t, paddle_report |-> p,
                               old_t |-> global_torch_report,
                               old_p |-> global_paddle_report])
  /\ global_torch_report' = t
  /\ global_paddle_report' = p
  /\ counter' = AttachCounters(counter, t, p)
  /\ counter_id' = ClearCounters(counter_id, counter', t, p)
  /\ entries' = entries + 1
  /\ hist' = Append(hist, [sid |-> entries + 1,
                           prior_t |-> current_torch_report,
                           prior_p |-> current_paddle_report,
                           counter |-> counter,
                           next |-> counter_id,
                           len |-> [r \in Reports |-> Len(items[r])]])
  /\ UNCHANGED <<items, exc, put_scope>>
  /\ last_exit' = NoExit
  /\ found' = NoFound
  /\ last_put' = NoPut
  /\ UNCHANGED sess_vars

\* the finally block of report_guard (lines 424-428), run when the body
\* returns and when an exception propagates out of it
GuardExit ==
  /\ guards # <<>>
  /\ LET f == guards[Len(guards)]
         h == hist[Len(hist)]
     IN  /\ global_torch_report' = f.old_t
         /\ global_paddle_report' = f.old_p
         /\ counter' = DetachCounters(counter, f.torch_report, f.paddle_report)
         /\ last_exit' = [how |-> IF exc THEN "raise" ELSE "return",
                          depth |-> Len(guards),
                          torch_report |-> f.torch_report,
                          paddle_report |-> f.paddle_report,
                          prior_t |-> h.prior_t, prior_p |-> h.prior_p,
                          pre_counter |-> h.counter, pre_next |-> h.next,
                          pre_len |-> h.len]
  /\ guards' = SubSeq(guards, 1, Len(guards) - 1)
  /\ hist' = SubSeq(hist, 1, Len(hist) - 1)
  /\ UNCHANGED <<counter_id, items, exc, entries, put_scope>>
  /\ found' = NoFound
  /\ last_put' = NoPut
  /\ UNCHANGED sess_vars

\* the guarded body raises
BodyRaise ==
  /\ guards # <<>>
  /\ ~exc
  /\ exc' = TRUE
  /\ UNCHANGED <<global_torch_report, global_paddle_report, counter_id, counter,
                 items, guards, hist, entries, put_scope>>
  /\ last_exit' = NoExit
  /\ found' = NoFound
  /\ last_put' = NoPut
  /\ UNCHANGED sess_vars

\* an except clause of an enclosing body, or of the caller, handles it
Catch ==
  /\ exc
  /\ exc' = FALSE
  /\ UNCHANGED <<global_torch_report, global_paddle_report, counter_id, counter,
                 items, guards, hist, entries, put_scope>>
  /\ last_exit' = NoExit
  /\ found' = NoFound
  /\ last_put' = NoPut
  /\ UNCHANGED sess_vars

\* Report.put_item (lines 129-143).  With self.counter None the first line
\* raises AttributeError and nothing is appended.
put_item(r, type, net_id) ==
  /\ ~exc
  /\ IF counter[r] = NoCounter
     THEN /\ exc' = TRUE
          /\ last_put' = [how |-> "raised", self |-> r, pre_counter |-> counter[r],
                          pre_items |-> items]
          /\ UNCHANGED <<counter_id, items, put_scope>>
     ELSE /\ counter_id' = get_id(counter_id, counter[r])
          /\ items' = [items EXCEPT ![r] =
                 Append(@, ReportItem(type, get_id_ret(counter_id, counter[r]), net_id))]
          /\ put_scope' = [put_scope EXCEPT ![r] = Append(@, ScopeOf(guards, hist, r))]
          /\ last_put' = [how |-> "returned", self |-> r, pre_counter |-> counter[r],
                          pre_items |-> items, pre_id |-> counter_id[counter[r]],
                          type |-> type, net_id |-> net_id,
                          ret |-> items'[r][PyIndex(Len(items'[r]), -1)]]
          /\ UNCHANGED exc
  /\ UNCHANGED <<global_torch_report, global_paddle_report, counter, guards,
                 hist, entries>>
  /\ last_exit' = NoExit
  /\ found' = NoFound
  /\ UNCHANGED sess_vars

\* a call self.set_forward(fwd) (lines 75-78): the assert comes first
SetForward(self, fwd) ==
  /\ ~exc
  /\ IF items[self[1]][self[2]].type = "backward"
     THEN /\ items' = set_forward(items, self, fwd)
          /\ UNCHANGED exc
     ELSE /\ exc' = TRUE
          /\ UNCHANGED items
  /\ UNCHANGED <<global_torch_report, global_paddle_report, counter_id, counter,
                 guards, hist, entries, put_scope>>
  /\ last_exit' = NoExit
  /\ found' = NoFound
  /\ last_put' = NoPut
  /\ UNCHANGED sess_vars

\* a query self.find_item(p_report, net_id)
FindItem(self, p, net_id) ==
  /\ ~exc
  /\ found' = [net_id |-> net_id, self |-> self, p |-> p,
               res |-> find_item(items[self], items[p], net_id)]
  /\ UNCHANGED <<global_torch_report, global_paddle_report, counter_id, counter,
                 items, guards, exc, hist, entries, put_scope>>
  /\ last_exit' = NoExit
  /\ last_put' = NoPut
  /\ UNCHANGED sess_vars

\* ======================================================= structural trees
Nodes == 1..MaxNodes

\* the elements of a finite set of integers in increasing order
SortedSeq(S) ==
  CHOOSE s \in [1..Cardinality(S) -> S] :
    \A i, j \in 1..Cardinality(S) : i < j => s[i] < s[j]

\* the trees a LayerStack can hold: node 1 is the root, nodes 1..k are used,
\* every other node's parent has a smaller number
TreeOf(par, k) ==
  [n \in Nodes |-> SortedSeq({m \in 2..k : par[m] = n})]

Trees ==
  UNION {{TreeOf(par, k) : par \in {q \in [2..k -> 1..k] : \A n \in 2..k : q[n] < n}}
         : k \in 1..MaxNodes}

\* the orders into which a children list can be permuted in place
Perms(s) ==
  {q \in [1..Len(s) -> {s[i] : i \in 1..Len(s)}] :
     \A i, j \in 1..Len(s) : i # j => q[i] # q[j]}

\* what t_root.fwd_report / t_root.bwd_report can hold
RecordKinds == {"forward", "backward", "missing"}

\* copy_module_struct: a fresh tree, no node reordered yet
copy_module_struct(tree) ==
  [children |-> tree, marker |-> [n \in Nodes |-> "unaligned"]]

\* reorder_and_match_reports can pair the two children lists one to one
CanMatch(tn, pn) == tn = pn

\* hasattr(p_root, "reordered") is false
NeedsReorder_never(m) == FALSE

NeedsReorder(m) == m = "unaligned"

\* print_info: one diagnostic bundle emitted
print_info_silent(log, grad, t, p, e) == log

print_info(log, grad, t, p, e) ==
  Append(log, [grad |-> grad, t_item |-> t, p_item |-> p, exc |-> e])

\* lines 325 / 362: torch_item.type and paddle_item.type are read and
\* asserted; the exception raised, "none" when the assert passes
TypeCheck(tk, pk, phase) ==
  IF tk = "missing" \/ pk = "missing" THEN "AttributeError"
  ELSE IF tk = pk /\ pk = phase THEN "none"
  ELSE "AssertionError"

AfterAct_descend(ok, tn, pn) ==
  IF tn = 0 \/ pn = 0 THEN (IF ok THEN "return_true" ELSE "leaf_fail")
  ELSE "reorder"

\* lines 326-333 / 363-370: what follows the comparison action
AfterAct(ok, tn, pn) ==
  IF ok THEN "return_true"
  ELSE IF tn = 0 \/ pn = 0 THEN "leaf_fail"
  ELSE "reorder"

ZipLen_skip_first(tn, pn) == (IF tn < pn THEN tn ELSE pn) - 1

\* the number of pairs zip(t_root.children, p_root.children) yields
ZipLen(tn, pn) == IF tn < pn THEN tn ELSE pn

\* the i-th pair of the loop: zip(a, b) in check_forward,
\* zip(reversed(a), reversed(b)) in check_backward
ChildPair(fn, tch, pch, i) ==
  IF fn = "forward"
  THEN [t |-> tch[i], p |-> pch[i]]
  ELSE [t |-> tch[Len(tch) + 1 - i], p |-> pch[Len(pch) + 1 - i]]

\* the call of one frame returns val
Returned(log, f, val) ==
  Append(log, [fn |-> f.fn, t |-> f.t, p |-> f.p, val |-> val])

FailureDetail_reorder(compare_info, e) == e

\* line 344 / 381: the detail handed to print_info when the reorder raised e
FailureDetail(compare_info, e) == compare_info

ChildFailed_never(res) == FALSE

\* line 349 / 386: if res == False
ChildFailed(res) == res = "False"

LoopExhausted_true == "True"

\* line 355 / 394: the value returned once every child pair has matched
LoopExhausted == "False"

SkipBackward_never(diff_phase) == FALSE

\* line 308: if options["diff_phase"] == "forward"
SkipBackward(diff_phase) == diff_phase = "forward"

CompareLoss_always(loss_fn) == TRUE

\* line 298: if options["loss_fn"]
CompareLoss(loss_fn) == loss_fn

Frame(fn, t, p) ==
  [fn |-> fn, t |-> t, p |-> p, pc |-> "act", i |-> 0, compare_info |-> [kind |-> "none"]]

Top == stack[Len(stack)]
Pop == SubSeq(stack, 1, Len(stack) - 1)
SetTop(f) == [stack EXCEPT ![Len(stack)] = f]

SessInit ==
  /\ t_children = [n \in Nodes |-> <<>>]
  /\ p_children = [n \in Nodes |-> <<>>]
  /\ marker = [n \in Nodes |-> "unaligned"]
  /\ options = [loss_fn |-> FALSE, diff_phase |-> "both"]
  /\ stack = <<>>
  /\ ret = "none"
  /\ spc = "idle"
  /\ result = "none"
  /\ act_log = <<>>
  /\ print_log = <<>>
  /\ reorder_log = <<>>
  /\ loss_cmp = "none"
  /\ bwd_read = FALSE
  /\ ret_log = <<>>
  /\ exc_kind = "none"

Init == RecInit /\ SessInit

\* check_forward_and_backward, lines 288-292: clone both trees and call
\* check_forward on the roots
StartSession(tt, pt, loss_fn, diff_phase) ==
  /\ spc = "idle"
  /\ t_children' = copy_module_struct(tt).children
  /\ p_children' = copy_module_struct(pt).children
  /\ marker' = copy_module_struct(pt).marker
  /\ options' = [loss_fn |-> loss_fn, diff_phase |-> diff_phase]
  /\ stack' = <<Frame("forward", 1, 1)>>
  /\ spc' = "forward"
  /\ UNCHANGED <<ret, result, act_log, print_log, reorder_log, loss_cmp,
                 bwd_read, ret_log, exc_kind>>
  /\ UNCHANGED rec_vars

\* an exception leaves check_forward / check_backward: no caller up to and
\* including check_forward_and_backward catches it
Escape(kind) ==
  /\ stack' = <<>>
  /\ ret' = "none"
  /\ spc' = "done"
  /\ result' = "raised"
  /\ exc_kind' = kind

\* check_forward lines 322-333, check_backward lines 359-370
CheckAct ==
  /\ stack # <<>>
  /\ Top.pc = "act"
  /\ ret = "none"
  /\ bwd_read' = (bwd_read \/ Top.fn = "backward")
  /\ \E tk, pk \in RecordKinds :
       LET f  == Top
           tn == Len(t_children[f.t])
           pn == Len(p_children[f.p])
           e  == TypeCheck(tk, pk, f.fn)
       IN  IF e # "none"
           THEN /\ Escape(e)
                /\ UNCHANGED <<act_log, print_log, ret_log>>
           ELSE \E ok \in BOOLEAN :
                  LET info == [kind |-> "compare", fn |-> f.fn, t |-> f.t, p |-> f.p]
                      then == AfterAct(ok, tn, pn)
                  IN  /\ act_log' = Append(act_log, [fn |-> f.fn, t |-> f.t, p |-> f.p, ok |-> ok])
                      /\ UNCHANGED <<spc, result, exc_kind>>
                      /\ CASE then = "return_true" ->
                                /\ stack' = Pop
                                /\ ret' = "True"
                                /\ ret_log' = Returned(ret_log, f, "True")
                                /\ UNCHANGED print_log
                           [] then = "leaf_fail" ->
                                /\ print_log' = print_info(print_log, f.fn = "backward", f.t, f.p, info)
                                /\ stack' = Pop
                                /\ ret' = "False"
                                /\ ret_log' = Returned(ret_log, f, "False")
                           [] OTHER ->
                                /\ stack' = SetTop([f EXCEPT !.pc = "reorder", !.compare_info = info])
                                /\ UNCHANGED <<ret, print_log, ret_log>>
  /\ UNCHANGED <<t_children, p_children, marker, options, reorder_log, loss_cmp>>
  /\ UNCHANGED rec_vars

\* the reorder called a second time on the pair it has just aligned
CheckReorder_twice ==
  /\ stack # <<>>
  /\ Top.pc = "reorder"
  /\ LET f == Top
         call == [t |-> f.t, p |-> f.p, ok |-> TRUE, was |-> marker[f.p]]
     IN  /\ CanMatch(Len(t_children[f.t]), Len(p_children[f.p]))
         /\ \E q \in Perms(p_children[f.p]) :
               p_children' = [p_children EXCEPT ![f.p] = q]
         /\ marker' = [marker EXCEPT ![f.p] = "aligned"]
         /\ reorder_log' = Append(Append(reorder_log, call), [call EXCEPT !.was = "aligned"])
         /\ stack' = SetTop([f EXCEPT !.pc = "loop", !.i = 1])
  /\ UNCHANGED <<t_children, options, spc, result, act_log, loss_cmp, bwd_read,
                 exc_kind, ret, print_log, ret_log>>
  /\ UNCHANGED rec_vars

\* check_forward lines 335-345, check_backward lines 372-382
CheckReorder ==
  /\ stack # <<>>
  /\ Top.pc = "reorder"
  /\ LET f == Top IN
       IF NeedsReorder(marker[f.p])
       THEN \/ \* reorder_and_match_reports returns
               /\ CanMatch(Len(t_children[f.t]), Len(p_children[f.p]))
               /\ \E q \in Perms(p_children[f.p]) :
                     p_children' = [p_children EXCEPT ![f.p] = q]
               /\ marker' = [marker EXCEPT ![f.p] = "aligned"]
               /\ reorder_log' = Append(reorder_log,
                     [t |-> f.t, p |-> f.p, ok |-> TRUE, was |-> marker[f.p]])
               /\ stack' = SetTop([f EXCEPT !.pc = "loop", !.i = 1])
               /\ UNCHANGED <<ret, print_log, ret_log>>
            \/ \* reorder_and_match_reports raises
               /\ marker' = [marker EXCEPT ![f.p] = "alignment-failed"]
               /\ reorder_log' = Append(reorder_log,
                     [t |-> f.t, p |-> f.p, ok |-> FALSE, was |-> marker[f.p]])
               /\ print_log' = print_info(print_log, f.fn = "backward", f.t, f.p,
                     FailureDetail(f.compare_info, [kind |-> "reorder", t |-> f.t, p |-> f.p]))
               /\ stack' = Pop
               /\ ret' = "False"
               /\ ret_log' = Returned(ret_log, f, "False")
               /\ UNCHANGED p_children
       ELSE /\ stack' = SetTop([f EXCEPT !.pc = "loop", !.i = 1])
            /\ UNCHANGED <<p_children, marker, reorder_log, ret, print_log, ret_log>>
  /\ UNCHANGED <<t_children, options, spc, result, act_log, loss_cmp, bwd_read, exc_kind>>
  /\ UNCHANGED rec_vars

\* the for statement of lines 347-348 / 384-385: the next pair is walked, or
\* the loop is exhausted and lines 352-355 / 389-394 report the parent
CheckChildren ==
  /\ stack # <<>>
  /\ Top.pc = "loop"
  /\ LET f  == Top
         tc == t_children[f.t]
         pc == p_children[f.p]
     IN  IF f.i <= ZipLen(Len(tc), Len(pc))
         THEN LET c == ChildPair(f.fn, tc, pc, f.i) IN
              /\ stack' = Append(SetTop([f EXCEPT !.pc = "wait"]), Frame(f.fn, c.t, c.p))
              /\ UNCHANGED <<ret, print_log, ret_log>>
         ELSE /\ print_log' = print_info(print_log, f.fn = "backward", f.t, f.p, f.compare_info)
              /\ stack' = Pop
              /\ ret' = LoopExhausted
              /\ ret_log' = Returned(ret_log, f, LoopExhausted)
  /\ UNCHANGED <<t_children, p_children, marker, options, spc, result, act_log,
                 reorder_log, loss_cmp, bwd_read, exc_kind>>
  /\ UNCHANGED rec_vars

\* lines 349-350 / 386-387: the child's result
CheckChildReturn ==
  /\ stack # <<>>
  /\ Top.pc = "wait"
  /\ ret # "none"
  /\ IF ChildFailed(ret)
     THEN /\ stack' = Pop
          /\ ret' = "False"
          /\ ret_log' = Returned(ret_log, Top, "False")
     ELSE /\ stack' = SetTop([Top EXCEPT !.pc = "loop", !.i = @ + 1])
          /\ ret' = "none"
          /\ UNCHANGED ret_log
  /\ UNCHANGED <<t_children, p_children, marker, options, spc, result, act_log,
                 print_log, reorder_log, loss_cmp, bwd_read, exc_kind>>
  /\ UNCHANGED rec_vars

\* check_forward_and_backward lines 293-295
AfterForward ==
  /\ spc = "forward"
  /\ stack = <<>>
  /\ ret # "none"
  /\ IF ret = "False"
     THEN /\ result' = "False"
          /\ spc' = "done"
     ELSE /\ spc' = "loss"
          /\ UNCHANGED result
  /\ ret' = "none"
  /\ UNCHANGED <<t_children, p_children, marker, options, stack, act_log,
                 print_log, reorder_log, loss_cmp, bwd_read, ret_log, exc_kind>>
  /\ UNCHANGED rec_vars

\* lines 297-306: assert_tensor_equal on the two captured losses
LossCheck ==
  /\ spc = "loss"
  /\ IF CompareLoss(options.loss_fn)
     THEN \E equal \in BOOLEAN :
            /\ loss_cmp' = IF equal THEN "equal" ELSE "differ"
            /\ IF equal
               THEN /\ spc' = "phase"
                    /\ UNCHANGED result
               ELSE /\ result' = "False"
                    /\ spc' = "done"
     ELSE /\ spc' = "phase"
          /\ UNCHANGED <<result, loss_cmp>>
  /\ UNCHANGED <<t_children, p_children, marker, options, stack, ret, act_log,
                 print_log, reorder_log, bwd_read, ret_log, exc_kind>>
  /\ UNCHANGED rec_vars

\* lines 308-313: stop after the forward phase, or call check_backward
PhaseCheck ==
  /\ spc = "phase"
  /\ IF SkipBackward(options.diff_phase)
     THEN /\ result' = "True"
          /\ spc' = "done"
          /\ UNCHANGED stack
     ELSE /\ stack' = <<Frame("backward", 1, 1)>>
          /\ spc' = "backward"
          /\ UNCHANGED result
  /\ UNCHANGED <<t_children, p_children, marker, options, ret, act_log,
                 print_log, reorder_log, loss_cmp, bwd_read, ret_log, exc_kind>>
  /\ UNCHANGED rec_vars

\* lines 314-318
AfterBackward ==
  /\ spc = "backward"
  /\ stack = <<>>
  /\ ret # "none"
  /\ result' = (IF ret = "False" THEN "False" ELSE "True")
  /\ spc' = "done"
  /\ ret' = "none"
  /\ UNCHANGED <<t_children, p_children, marker, options, stack, act_log,
                 print_log, reorder_log, loss_cmp, bwd_read, ret_log, exc_kind>>
  /\ UNCHANGED rec_vars

\* ========================================================= specifications
Next ==
  \/ \E t, p \in Reports : t # p /\ GuardEnter(t, p)
  \/ GuardExit
  \/ BodyRaise
  \/ Catch
  \/ \E r \in Reports :
        TotalItems < MaxItems /\ put_item(r, "forward", 1)

Spec == Init /\ [][Next]_vars

EnterFind == guards = <<>> /\ GuardEnter(1, 2)

PutFind ==
  /\ guards # <<>>
  /\ \E r \in {1, 2}, ty \in Types, id \in NetIds :
        /\ Len(items[r]) < (IF r = 1 THEN MaxT ELSE MaxP)
        /\ put_item(r, ty, id)

NextFind ==
  \/ EnterFind
  \/ PutFind
  \/ \E id \in NetIds : FindItem(1, 2, id)

SpecFind == Init /\ [][NextFind]_vars

EnterLink == guards = <<>> /\ entries = 0 /\ GuardEnter(1, 2)

PutLink ==
  /\ guards # <<>>
  /\ Len(items[1]) < MaxLinked
  /\ \E ty \in Types, id \in NetIds : put_item(1, ty, id)

\* the hooks hand set_forward a forward record of the same recorder
LinkItems ==
  \E i, j \in DOMAIN items[1] :
     /\ items[1][j].type = "forward"
     /\ SetForward(<<1, i>>, <<1, j>>)

NextLink ==
  \/ EnterLink
  \/ PutLink
  \/ LinkItems
  \/ Catch

SpecLink == Init /\ [][NextLink]_vars

NextCheck ==
  \/ /\ spc = "idle"
     /\ \E tt, pt \in Trees, lf \in BOOLEAN, dp \in {"forward", "both"} :
           StartSession(tt, pt, lf, dp)
  \/ CheckAct
  \/ CheckReorder
  \/ CheckChildren
  \/ CheckChildReturn
  \/ AfterForward
  \/ LossCheck
  \/ PhaseCheck
  \/ AfterBackward

SpecCheck == Init /\ [][NextCheck]_vars

\* ================================================================ claims
\* ---- report_guard, put_item (Spec)

\* C1: when a report_guard scope exits, by return or by an exception of its
\* body, current_torch_report() and current_paddle_report() give the values
\* they gave just before the scope was entered (None when nothing was
\* active), and neither recorder passed to the guard has a counter.
C1_GuardExitRestores ==
  last_exit.how # "none" =>
    /\ current_torch_report = last_exit.prior_t
    /\ current_paddle_report = last_exit.prior_p
    /\ counter[last_exit.torch_report] = NoCounter
    /\ counter[last_exit.paddle_report] = NoCounter

\* an inner scope, entered while another pair was active, left by an exception
C1_Witness ==
  /\ last_exit.how = "raise"
  /\ last_exit.depth = 2
  /\ last_exit.prior_t # None
  /\ last_exit.prior_p # None
  /\ last_exit.prior_t # last_exit.torch_report
  /\ current_torch_report = last_exit.prior_t

\* the recorders of the scope that encloses the one just left
Enclosing == {guards[Len(guards)].torch_report, guards[Len(guards)].paddle_report}

\* C2: when an inner scope exits, the enclosing scope is as it was just
\* before the inner entry: the same active pair, every enclosing recorder
\* still with the counter it had, and, for a recorder that recorded nothing
\* in between, that counter's next number unchanged.
C2_NestingIsStackDisciplined ==
  (last_exit.how # "none" /\ last_exit.depth >= 2) =>
    /\ current_torch_report = last_exit.prior_t
    /\ current_paddle_report = last_exit.prior_p
    /\ \A r \in Enclosing :
         /\ counter[r] # NoCounter
         /\ counter[r] = last_exit.pre_counter[r]
         /\ Len(items[r]) = last_exit.pre_len[r] =>
              counter_id[counter[r]] = last_exit.pre_next[counter[r]]

\* the positions of a recorder's records that were put under one scope
ScopePositions(r, sid) == {i \in DOMAIN items[r] : put_scope[r][i] = sid}

\* C3: for every recorder and every scope it was entered with, the steps
\* put_item gave its records during that scope increase strictly in
\* recorded order, and the first of them is 0.
C3_StepsIncreaseWithinScope ==
  \A r \in Reports : \A sid \in 1..entries :
    LET P == ScopePositions(r, sid) IN
    /\ \A i, j \in P : i < j => items[r][i].step < items[r][j].step
    /\ \A i \in P : (\A j \in P : i <= j) => items[r][i].step = 0

\* ---- find_item (SpecFind)

\* the positions of the forward records with one identity
Matching(its, net_id) ==
  {i \in DOMAIN its : its[i].type = "forward" /\ its[i].net_id = net_id}

\* the position of the k-th of them, counting from one
KthMatching(its, net_id, k) ==
  CHOOSE i \in Matching(its, net_id) :
    Cardinality({j \in Matching(its, net_id) : j <= i}) = k

\* C7: when p_report holds k >= 1 forward records with identity net_id and
\* this recorder holds at least k, find_item returns this recorder's k-th
\* such record in recorded order, whatever other records either side holds.
C7_FindItemPairsByOrdinal ==
  found.net_id # 0 =>
    LET k == Cardinality(Matching(items[found.p], found.net_id))
        n == Cardinality(Matching(items[found.self], found.net_id))
    IN  (k >= 1 /\ n >= k) =>
          /\ found.res.ok
          /\ found.res.pos = KthMatching(items[found.self], found.net_id, k)

\* three invocations per side, queried after the other side's third, with a
\* record of another kind recorded before the one returned
C7_Witness ==
  /\ found.net_id # 0
  /\ Cardinality(Matching(items[found.p], found.net_id)) = 3
  /\ Cardinality(Matching(items[found.self], found.net_id)) = 3
  /\ found.res.ok
  /\ found.res.pos = 4

\* C8: find_item raises, and returns no record, whenever the requested
\* occurrence does not exist: the other side holds more such records than
\* this recorder, this recorder holds none, or the other side holds none.
C8_FindItemFailsWhenAbsent ==
  found.net_id # 0 =>
    LET k == Cardinality(Matching(items[found.p], found.net_id))
        n == Cardinality(Matching(items[found.self], found.net_id))
    IN  (k > n \/ n = 0 \/ k = 0) => ~found.res.ok

\* ---- check_forward_and_backward (SpecCheck)

\* the comparison actions applied in one phase, in order
ActsOf(fn) == SelectSeq(act_log, LAMBDA a : a.fn = fn)

\* C4: for two trees of the same shape on which every comparison action
\* applied succeeds, whose records carry the phase they are read for,
\* reorder_and_match_reports is never called and the session returns True,
\* whatever diff_phase is and with the loss check off or passing.
C4_AllMatchReturnsTrue ==
  (t_children = p_children /\ \A i \in DOMAIN act_log : act_log[i].ok) =>
    /\ reorder_log = <<>>
    /\ (spc = "done" /\ exc_kind = "none" /\ loss_cmp # "differ") => result = "True"

\* both phases run on two three-node trees, the loss compared and equal
C4_Witness ==
  /\ spc = "done"
  /\ result = "True"
  /\ t_children = p_children
  /\ Len(t_children[1]) = 2
  /\ options.diff_phase = "both"
  /\ loss_cmp = "equal"
  /\ Len(act_log) = 2
  /\ reorder_log = <<>>

\* the chain A -> B -> C, A = 1, B = 2, C = 3
Chain3 == [n \in Nodes |-> IF n = 1 THEN <<2>> ELSE IF n = 2 THEN <<3>> ELSE <<>>]

OnChain3 == spc # "idle" /\ t_children = Chain3 /\ p_children = Chain3

\* the node pairs one phase applied the action to, in order
VisitOrder(fn) == [i \in DOMAIN ActsOf(fn) |-> <<ActsOf(fn)[i].t, ActsOf(fn)[i].p>>]

\* C5 as claimed: on the chain, a forward walk that descends through every
\* level applies the action to A, B, C in that order and a backward walk
\* that descends through every level applies it to C, B, A.
C5_ChainOrder_Claimed ==
  OnChain3 =>
    /\ Len(ActsOf("forward")) = 3 =>
         VisitOrder("forward") = <<<<1, 1>>, <<2, 2>>, <<3, 3>>>>
    /\ Len(ActsOf("backward")) = 3 =>
         VisitOrder("backward") = <<<<3, 3>>, <<2, 2>>, <<1, 1>>>>

\* the number of failed comparisons of one phase on pairs that have children
FailedInner(fn) ==
  Len(SelectSeq(ActsOf(fn), LAMBDA a : ~a.ok /\ t_children[a.t] # <<>>))

\* C5 as amended: on the chain, in a finished session in which no reorder
\* failed and no exception escaped, each phase that ran applied the action
\* downwards from A, one level further for every failed comparison: A, then
\* B, then C, in check_forward and in check_backward alike.
C5_ChainOrder ==
  (OnChain3 /\ spc = "done" /\ exc_kind = "none"
     /\ \A i \in DOMAIN reorder_log : reorder_log[i].ok) =>
    \A fn \in {"forward", "backward"} :
      ActsOf(fn) # <<>> =>
        VisitOrder(fn) = SubSeq(<<<<1, 1>>, <<2, 2>>, <<3, 3>>>>, 1, 1 + FailedInner(fn))

\* a backward walk that went down to C
C5_Witness ==
  /\ OnChain3
  /\ spc = "done"
  /\ VisitOrder("backward") = <<<<1, 1>>, <<2, 2>>, <<3, 3>>>>

\* a failed comparison on a pair whose children lists are both non-empty
\* and of different lengths
MismatchFail(i) ==
  /\ ~act_log[i].ok
  /\ t_children[act_log[i].t] # <<>>
  /\ p_children[act_log[i].p] # <<>>
  /\ Len(t_children[act_log[i].t]) # Len(p_children[act_log[i].p])

C9_SessionNeverRaises ==
  /\ result # "raised"
  /\ spc = "done" => result \in {"True", "False"}

\* C10 as claimed: a session that returned False emitted print_info exactly
\* once, a session that returned True never.
C10_OneDiagnostic_Claimed ==
  spc = "done" =>
    /\ result = "False" => Len(print_log) = 1
    /\ result = "True" => Len(print_log) = 0

\* C10 as amended: print_info is emitted at most once in a session; a
\* session that returned False emitted it exactly once when a walk failed
\* and not at all when the loss comparison failed; a session that returned
\* True never emitted it.
C10_OneDiagnostic ==
  /\ Len(print_log) <= 1
  /\ spc = "done" =>
       /\ result = "False" => Len(print_log) = (IF loss_cmp = "differ" THEN 0 ELSE 1)
       /\ result = "True" => Len(print_log) = 0

\* a backward failure of a child pair, propagated up to the session
C10_Witness ==
  /\ spc = "done"
  /\ result = "False"
  /\ Len(print_log) = 1
  /\ print_log[1].grad
  /\ print_log[1].t_item # 1

\* the reorder of a pair was called and returned
ReorderedOk(t, p) ==
  \E j \in DOMAIN reorder_log :
    reorder_log[j].t = t /\ reorder_log[j].p = p /\ reorder_log[j].ok

\* the detail of the failed comparison of a pair in one phase
CompareFailure(fn, t, p) == [kind |-> "compare", fn |-> fn, t |-> t, p |-> p]

\* the k-th return is that of a pair whose reorder succeeded and whose
\* last child pair matched
AggregateReturn(k) ==
  /\ k > 1
  /\ ReorderedOk(ret_log[k].t, ret_log[k].p)
  /\ ret_log[k - 1].val = "True"

\* C11: when the action fails on a pair with children, the reorder succeeds
\* and every child pair's walk returns success, the walk of the pair
\* returns failure, and the one diagnostic emitted carries the pair's own
\* records and its own comparison failure, never a child's.
C11_AggregateNamesParent ==
  \A k \in DOMAIN ret_log :
    AggregateReturn(k) =>
      LET r == ret_log[k]
          n == Len(t_children[r.t])
      IN  /\ r.val = "False"
          /\ k > n
          /\ \A c \in 1..n :
               /\ ret_log[k - c].val = "True"
               /\ ret_log[k - c].fn = r.fn
               /\ ret_log[k - c].t \in {t_children[r.t][x] : x \in 1..n}
               /\ ret_log[k - c].p \in {p_children[r.p][x] : x \in 1..n}
          /\ print_log = <<[grad |-> r.fn = "backward", t_item |-> r.t, p_item |-> r.p,
                            exc |-> CompareFailure(r.fn, r.t, r.p)]>>

\* a root with two matching children and a failing root action
C11_Witness ==
  /\ spc = "done"
  /\ result = "False"
  /\ Len(t_children[1]) = 2
  /\ Len(ret_log) = 3
  /\ AggregateReturn(3)
  /\ ret_log[3].t = 1
  /\ print_log[1].t_item = 1

WalkOk(fn) ==
  \E k \in DOMAIN ret_log :
     ret_log[k] = [fn |-> fn, t |-> 1, p |-> 1, val |-> "True"]

LossOffOrPassed ==
  \/ ~options.loss_fn /\ loss_cmp = "none"
  \/ options.loss_fn /\ loss_cmp = "equal"

\* C13: with diff_phase "forward" check_backward is never invoked, no
\* backward record is read, and the session returns True exactly when the
\* forward walk succeeded and the loss check was off or passed.
C13_ForwardOnly ==
  (spc # "idle" /\ options.diff_phase = "forward") =>
     /\ ~bwd_read
     /\ spc # "backward"
     /\ \A i \in DOMAIN stack : stack[i].fn = "forward"
     /\ ActsOf("backward") = <<>>
     /\ \A k \in DOMAIN ret_log : ret_log[k].fn = "forward"
     /\ spc = "done" => (result = "True" <=> (WalkOk("forward") /\ LossOffOrPassed))

\* two single-node trees, a succeeding forward action, no loss check
C13_Witness ==
  /\ spc = "done"
  /\ options.diff_phase = "forward"
  /\ ~options.loss_fn
  /\ t_children[1] = <<>>
  /\ p_children[1] = <<>>
  /\ Len(act_log) = 1
  /\ act_log[1].ok
  /\ result = "True"

\* C14: with loss_fn set, a session whose losses do not compare equal
\* returns False whatever the pairwise actions did, and no backward walk
\* follows; with loss_fn unset the losses are never compared and the result
\* is that of the walks alone.
C14_LossDecides ==
  (spc # "idle") =>
     /\ loss_cmp = "differ" =>
          /\ options.loss_fn
          /\ spc = "done"
          /\ result = "False"
          /\ WalkOk("forward")
          /\ print_log = <<>>
          /\ ActsOf("backward") = <<>>
     /\ (options.loss_fn /\ spc = "done" /\ result = "True") => loss_cmp = "equal"
     /\ ~options.loss_fn =>
          /\ loss_cmp = "none"
          /\ spc = "done" =>
               (result = "True" <=>
                  /\ WalkOk("forward")
                  /\ options.diff_phase = "forward" \/ WalkOk("backward"))

\* every forward action succeeded, both phases were asked for, the losses
\* differ
C14_Witness ==
  /\ spc = "done"
  /\ options.loss_fn
  /\ options.diff_phase = "both"
  /\ loss_cmp = "differ"
  /\ act_log # <<>>
  /\ \A i \in DOMAIN act_log : act_log[i].ok
  /\ result = "False"

Range(q) == {q[i] : i \in DOMAIN q}

\* the first return of False in the session
FirstFalse ==
  CHOOSE k \in DOMAIN ret_log :
     /\ ret_log[k].val = "False"
     /\ \A j \in 1..(k - 1) : ret_log[j].val = "True"

\* every return that follows a failed return is the failure of its parent
FailureClimbs ==
  (\E k \in DOMAIN ret_log : ret_log[k].val = "False") =>
     /\ \A k \in (FirstFalse + 1)..Len(ret_log) :
          /\ ret_log[k].val = "False"
          /\ ret_log[k].fn = ret_log[k - 1].fn
          /\ ret_log[k - 1].t \in Range(t_children[ret_log[k].t])
          /\ ret_log[k - 1].p \in Range(p_children[ret_log[k].p])
     /\ Len(print_log) = 1
     /\ print_log[1].t_item = ret_log[FirstFalse].t
     /\ print_log[1].p_item = ret_log[FirstFalse].p

\* a step taken while a walk's failure is being returned
FailureStep ==
  /\ act_log' = act_log
  /\ print_log' = print_log
  /\ reorder_log' = reorder_log
  /\ IF stack = <<>>
     THEN spc' = "done" /\ result' = "False" /\ ret_log' = ret_log
     ELSE /\ ret' = "False"
          /\ stack' = SubSeq(stack, 1, Len(stack) - 1)
          /\ ret_log' = Append(ret_log, [fn |-> Top.fn, t |-> Top.t, p |-> Top.p, val |-> "False"])

\* C17: once a child pair's walk returns failure, the parent returns failure
\* at once: no action is applied to a later sibling pair or a descendant of
\* one, and the parent emits no diagnostic of its own.
C17_ChildFailurePropagates ==
  /\ []FailureClimbs
  /\ [][ret = "False" => FailureStep]_vars

\* backward phase: the root action fails, the last child pair is walked
\* first and fails, the first child pair is never acted on
C17_Witness ==
  /\ spc = "done"
  /\ result = "False"
  /\ Len(t_children[1]) = 2
  /\ Len(p_children[1]) = 2
  /\ Len(ActsOf("backward")) = 2
  /\ ActsOf("backward")[2].t = t_children[1][2]
  /\ Len(ret_log) = 3
  /\ ret_log[2].val = "False"
  /\ ret_log[2].t = t_children[1][2]
  /\ ret_log[3] = [fn |-> "backward", t |-> 1, p |-> 1, val |-> "False"]
  /\ print_log[1].t_item = t_children[1][2]

\* C18: when the action fails on a pair with children and the reorder then
\* fails, the walk returns failure without visiting a child, and the detail
\* handed to print_info is the comparison failure of that pair.
C18_ReorderFailureReportsCompare ==
  \A i \in DOMAIN reorder_log :
     ~reorder_log[i].ok =>
        LET r == reorder_log[i]
            a == act_log[Len(act_log)]
        IN  /\ i = Len(reorder_log)
            /\ a.t = r.t /\ a.p = r.p /\ ~a.ok
            /\ t_children[r.t] # <<>> /\ p_children[r.p] # <<>>
            /\ \E k \in DOMAIN ret_log :
                 ret_log[k] = [fn |-> a.fn, t |-> r.t, p |-> r.p, val |-> "False"]
            /\ print_log = <<[grad |-> a.fn = "backward", t_item |-> r.t,
                              p_item |-> r.p, exc |-> CompareFailure(a.fn, r.t, r.p)]>>

\* the reorder fails on a child pair that has children of its own
C18_Witness ==
  /\ spc = "done"
  /\ result = "False"
  /\ Len(reorder_log) = 2
  /\ reorder_log[1].ok
  /\ ~reorder_log[2].ok
  /\ reorder_log[2].t # 1
  /\ print_log[1].t_item = reorder_log[2].t
  /\ print_log[1].exc.kind = "compare"

\* the action applied to a pair in one phase succeeded
ActOk(fn, t, p) ==
  \E i \in DOMAIN act_log :
     act_log[i] = [fn |-> fn, t |-> t, p |-> p, ok |-> TRUE]

\* C20: a walk returns True for a pair iff the action applied to that very
\* pair succeeded, so the root action alone decides the forward verdict and
\* child pairs are visited only in sessions that do not return True.
C20_OwnActionDecides ==
  /\ \A k \in DOMAIN ret_log :
       ret_log[k].val = "True" <=> ActOk(ret_log[k].fn, ret_log[k].t, ret_log[k].p)
  /\ spc \in {"loss", "phase", "backward"} => ActOk("forward", 1, 1)
  /\ (spc = "done" /\ result = "True") =>
       /\ ActOk("forward", 1, 1)
       /\ \A i \in DOMAIN act_log : act_log[i].t = 1 /\ act_log[i].p = 1
  /\ (spc = "done" /\ \E i \in DOMAIN act_log : act_log[i].t # 1) =>
       result \in {"False", "raised"}

\* the root action fails, the reorder and every child walk succeed, and the
\* root still returns False
C20_Witness ==
  /\ spc = "done"
  /\ result = "False"
  /\ Len(act_log) = 3
  /\ ~act_log[1].ok /\ act_log[2].ok /\ act_log[3].ok
  /\ ReorderedOk(1, 1)
  /\ ret_log[Len(ret_log)] = [fn |-> "forward", t |-> 1, p |-> 1, val |-> "False"]

C16_CounterExclusive ==
  \A r1, r2 \in Reports :
     (r1 # r2 /\ counter[r1] # NoCounter) => counter[r1] # counter[r2]

\* the references to the records held by the recorders
ItemRefs == UNION {{<<r, i>> : i \in DOMAIN items[r]} : r \in Reports}

ItemAt(x) == items[x[1]][x[2]]

\* C19: after any sequence of set_forward calls the link is bidirectional and
\* one-to-one: a backward record b whose fwd_item is f is f's bwd_item, no
\* forward record is the fwd_item of two backward records, and a forward
\* record, on which set_forward fails, never gets a fwd_item.
C19_LinkOneToOne ==
  /\ \A b \in ItemRefs :
       ItemAt(b).fwd_item # NoItem => ItemAt(ItemAt(b).fwd_item).bwd_item = b
  /\ \A b1, b2 \in ItemRefs :
       (b1 # b2 /\ ItemAt(b1).fwd_item # NoItem) =>
          ItemAt(b1).fwd_item # ItemAt(b2).fwd_item
  /\ \A x \in ItemRefs :
       ItemAt(x).type = "forward" => ItemAt(x).fwd_item = NoItem

====
